---- MODULE Spec2Model ----
(***************************************************************************)
(* ENTE-TCP (src/ente_tcp_lkm.c): entropy-aware TCP congestion control.    *)
(* One connection: the private area `struct ente_tcp` (ca), the fields of  *)
(* the host's tcp_sock the module reads or writes (tp), and one action per *)
(* callback of ente_tcp_ops.                                               *)
(*                                                                         *)
(* TLC's integers are 32-bit signed.  A u32 that can exceed 2^31-1         *)
(* (min_rtt_us, rtt_variance) is kept as a pair <<high half, low half>> of *)
(* 16-bit words; every other quantity stays below 2^31 within the bounds.  *)
(***************************************************************************)
EXTENDS Integers, Sequences, FiniteSets, TLC

\* ---------------------------------------------------------------- constants
ENTROPY_WINDOW_SIZE == 16
ENTROPY_CALC_INTERVAL == 8
HISTOGRAM_BINS == 16
HIGH_ENTROPY_THRESHOLD == 700
LOW_ENTROPY_THRESHOLD == 400
NOISE_AGGRESSION == 1500
CONGESTION_CONSERVE == 500
NOISE_REDUCTION_FACTOR == 3
CONGESTION_REDUCTION_FACTOR == 2
TCP_INFINITE_SSTHRESH == 2147483647
U16_MOD == 65536
U32_MAX == <<65535, 65535>>

\* ------------------------------------------------------------------- bounds
\* tp->snd_cwnd_clamp, the host's cap on the window, in SpecWin.
MaxCwnd == 6
\* How many times the host's smoothed RTT changes during a run.
MaxRttChanges == 1
\* How many acknowledgments with acked > 0 a run of SpecAck handles.
MaxAcks == 9
\* The same for SpecWin.
WinAcks == 9

\* The finite threshold ente_tcp_init finds in SpecProgress, and the host's
\* cap on the window there.
ProgressSsthresh == 10
ProgressCwndClamp == 12

\* Values of tp->srtt_us (8 * microseconds) the host may hold: 0 (coerced to
\* 1 us and 1 ms) and a value whose millisecond form clamps to 65535.
SrttInputs == {0, 2147483647}
\* acked counts passed to cong_avoid: in Spec and SpecWin every
\* acknowledgment with acked > 0 reaches the calculation interval, in SpecAck
\* single segments are acknowledged too.
AckedInputs == {0, 8}
SegmentAckedInputs == {0, 1, 8}
\* The same with a count that carries the 16-bit packets_acked past its
\* width, in SpecWrap.
WrapAckedInputs == {1, 8, U16_MOD - 1}
\* tp->snd_cwnd and tp->snd_ssthresh found by ente_tcp_init in SpecWin.
InitCwndInputs == {1, 3}
InitSsthreshInputs == {2, TCP_INFINITE_SSTHRESH}
\* Values of tp->srtt_us in SpecEntropy: 1, 2, 9 and 16 ms, which fall into
\* the first, the last and two inner bins of the histogram.
EntropySrttInputs == {8000, 16000, 72000, 128000}
\* acked counts of SpecProgress: every acknowledgment carries segments.
ProgressAckedInputs == {1, 2, 8}
\* enum tcp_ca_event values delivered to cwnd_event.
CA_EVENT_LOSS == "CA_EVENT_LOSS"
CA_EVENT_CWND_RESTART == "CA_EVENT_CWND_RESTART"
CA_EVENT_TX_START == "CA_EVENT_TX_START"
CaEvents == {CA_EVENT_LOSS, CA_EVENT_CWND_RESTART, CA_EVENT_TX_START}
\* icsk_ca_state values delivered to set_state.
TCP_CA_Open == "TCP_CA_Open"
TCP_CA_Loss == "TCP_CA_Loss"
CaStates == {TCP_CA_Open, TCP_CA_Loss}

\* ---------------------------------------------------------------- variables
VARIABLES
    min_rtt_us, prior_cwnd, ssthresh,
    rtt_history, history_index, history_count,
    shannon_entropy, packets_acked,
    rtt_variance, avg_rtt_us,
    has_entropy_data, in_slow_start, is_noise, is_congestion, loss_event,
    snd_cwnd, snd_cwnd_cnt, snd_ssthresh, snd_cwnd_clamp, srtt_us,
    recorded, rtt_changes, segments_pending

ca_vars == <<min_rtt_us, prior_cwnd, ssthresh, rtt_history, history_index,
             history_count, shannon_entropy, packets_acked, rtt_variance,
             avg_rtt_us, has_entropy_data, in_slow_start, is_noise,
             is_congestion, loss_event>>
tp_vars == <<snd_cwnd, snd_cwnd_cnt, snd_ssthresh, snd_cwnd_clamp, srtt_us>>
vars == <<ca_vars, tp_vars, recorded, rtt_changes, segments_pending>>

\* ------------------------------------------------------------------ helpers
Min(a, b) == IF a < b THEN a ELSE b
Max(a, b) == IF a > b THEN a ELSE b

\* A u32 below 2^31 as a pair of 16-bit halves, and the order on pairs.
Wide(n) == <<n \div U16_MOD, n % U16_MOD>>
WideLt(a, b) == a[1] < b[1] \/ (a[1] = b[1] /\ a[2] < b[2])
WideLe(a, b) == a = b \/ WideLt(a, b)

RECURSIVE BitLen(_)
\* 32 - __builtin_clz(n) for n > 0: the number of significant bits of n.
BitLen(n) == IF n = 0 THEN 0 ELSE 1 + BitLen(n \div 2)

RECURSIVE SumOver(_, _)
SumOver(f, S) == IF S = {} THEN 0
                 ELSE LET x == CHOOSE y \in S : TRUE
                      IN f[x] + SumOver(f, S \ {x})

\* ------------------------------------------------------- calculate_entropy
\* Lines 99-108: the samples calculate_entropy reads are slots 0..count-1.
entropy_slots(cnt) == 0 .. (Min(cnt, ENTROPY_WINDOW_SIZE) - 1)
entropy_min(hist, cnt) ==
    CHOOSE m \in {hist[i] : i \in entropy_slots(cnt)} :
        \A i \in entropy_slots(cnt) : m <= hist[i]
entropy_max(hist, cnt) ==
    CHOOSE m \in {hist[i] : i \in entropy_slots(cnt)} :
        \A i \in entropy_slots(cnt) : m >= hist[i]

\* Lines 117-122: the bin of one sample, and the histogram.
entropy_bin(sample, min_val, range) ==
    Min(((sample - min_val) * (HISTOGRAM_BINS - 1)) \div range,
        HISTOGRAM_BINS - 1)
entropy_histogram(hist, cnt, min_val, range) ==
    LET bin == [i \in entropy_slots(cnt) |->
                   entropy_bin(hist[i], min_val, range)]
    IN [b \in 0 .. (HISTOGRAM_BINS - 1) |->
           Cardinality({i \in entropy_slots(cnt) : bin[i] = b})]

\* Mutant: log_p is not scaled back by 1000 (line 136 left out).
entropy_term_unscaled(h, total) ==
    IF h > 0
    THEN LET p == (h * 1000000) \div total
         IN (p * BitLen(p \div 1000)) \div 1000000
    ELSE 0
\* Lines 127-141: one bin's contribution.  p * log_p reaches 10^10 in the
\* code's u64; since log_p = 1000 * BitLen(p / 1000),
\* (p * log_p) / 1000000 = (p * BitLen(p / 1000)) / 1000 exactly.
entropy_term(h, total) ==
    IF h > 0
    THEN LET p == (h * 1000000) \div total
         IN (p * BitLen(p \div 1000)) \div 1000
    ELSE 0
\* Lines 125-142: the accumulated sum before normalisation.
entropy_accumulate(hist, cnt, min_val, range) ==
    LET histogram == entropy_histogram(hist, cnt, min_val, range)
        total == Min(cnt, ENTROPY_WINDOW_SIZE)
    IN SumOver([b \in 0 .. (HISTOGRAM_BINS - 1) |->
                    entropy_term(histogram[b], total)],
               0 .. (HISTOGRAM_BINS - 1))
\* Mutant: the final clamp is dropped.
entropy_normalize_unclamped(entropy) == entropy \div 4
\* Line 146: divide by 4, clamp to 1000.
entropy_normalize(entropy) == Min(entropy \div 4, 1000)
\* Mutant: the sample minimum of update_rtt_stats is used instead.
entropy_enough_four(cnt) == cnt >= 4
\* Line 96: the minimum number of samples.
entropy_enough(cnt) == cnt >= 8

calculate_entropy(hist, cnt) ==
    IF ~entropy_enough(cnt) THEN 0
    ELSE LET min_val == entropy_min(hist, cnt)
             range == entropy_max(hist, cnt) - min_val
         IN IF range = 0 THEN 0
            ELSE entropy_normalize(entropy_accumulate(hist, cnt, min_val, range))

\* -------------------------------------------------------- update_rtt_stats
\* d * d for |d| <= 65535 as <<high, low>> 16-bit halves of the 32-bit
\* product; the s32 product wraps (the kernel is built with
\* -fno-strict-overflow), so a high half >= 32768 is a negative value.
square_halves(d) ==
    LET m == IF d < 0 THEN -d ELSE d
        a == m \div 256
        b == m % 256
        mid == 2 * a * b * 256 + b * b
    IN <<a * a + mid \div U16_MOD, mid % U16_MOD>>
signed_high(h) == IF h >= 32768 THEN h - U16_MOD ELSE h

\* (u32)(variance_sum / count): variance_sum is the u64 sum of the
\* sign-extended products, H * 2^16 + L modulo 2^64.
variance_quotient(H, L, count) ==
    LET l0 == L % U16_MOD
        m == H + L \div U16_MOD
    IN IF m >= 0
       THEN <<(m \div count) % U16_MOD,
              ((m % count) * U16_MOD + l0) \div count>>
       ELSE LET q == m \div U16_MOD
                l1 == m % U16_MOD
                r3 == (U16_MOD - 1) % count
                t2 == r3 * U16_MOD + (U16_MOD + q)
                t1 == (t2 % count) * U16_MOD + l1
                t0 == (t1 % count) * U16_MOD + l0
            IN <<t1 \div count, t0 \div count>>

\* Returns <<avg_rtt_us, rtt_variance>> (lines 156-173).
update_rtt_stats(hist, cnt, old_avg, old_var) ==
    IF cnt < 4 THEN <<old_avg, old_var>>
    ELSE LET count == Min(cnt, ENTROPY_WINDOW_SIZE)
             slots == 0 .. (count - 1)
             sum == SumOver(hist, slots)
             avg == sum \div count
             sq == [i \in slots |-> square_halves(hist[i] - avg)]
             H == SumOver([i \in slots |-> signed_high(sq[i][1])], slots)
             L == SumOver([i \in slots |-> sq[i][2]], slots)
         IN <<avg * 1000, variance_quotient(H, L, count)>>

\* ------------------------------------------- host window helpers (net/tcp.h)
\* tcp_slow_start(tp, acked): <<tp->snd_cwnd, acked left over>>.  The window
\* never exceeds tp->snd_cwnd_clamp.
tcp_slow_start(cwnd0, tp_ssthresh, acked) ==
    LET cwnd == Min(cwnd0 + acked, tp_ssthresh)
    IN <<Min(cwnd, snd_cwnd_clamp), acked - (cwnd - cwnd0)>>

\* tcp_cong_avoid_ai(tp, w, acked): <<tp->snd_cwnd, tp->snd_cwnd_cnt>>.
tcp_cong_avoid_ai(cwnd0, cnt0, w, acked) ==
    LET credit == cnt0 >= w
        cwnd1 == IF credit THEN cwnd0 + 1 ELSE cwnd0
        cnt1 == (IF credit THEN 0 ELSE cnt0) + acked
        delta == cnt1 \div w
        cwnd2 == IF cnt1 >= w THEN cwnd1 + delta ELSE cwnd1
        cnt2 == IF cnt1 >= w THEN cnt1 - delta * w ELSE cnt1
    IN <<Min(cwnd2, snd_cwnd_clamp), cnt2>>

\* tcp_reno_cong_avoid(sk, ack, acked): <<tp->snd_cwnd, tp->snd_cwnd_cnt>>.
tcp_reno_cong_avoid(cwnd0, cnt0, tp_ssthresh, acked, cwnd_limited) ==
    IF ~cwnd_limited THEN <<cwnd0, cnt0>>
    ELSE IF cwnd0 < tp_ssthresh
    THEN LET ss == tcp_slow_start(cwnd0, tp_ssthresh, acked)
         IN IF ss[2] = 0 THEN <<ss[1], cnt0>>
            ELSE tcp_cong_avoid_ai(ss[1], cnt0, ss[1], ss[2])
    ELSE tcp_cong_avoid_ai(cwnd0, cnt0, cwnd0, acked)

\* ------------------------------------------------------ ente_tcp_cong_avoid
\* Lines 222-224 and 231-233: the smoothed RTT in us and in ms.
rtt_us_of(srtt) == IF srtt \div 8 = 0 THEN 1 ELSE srtt \div 8
rtt_ms_of(srtt) ==
    LET ms == Min(rtt_us_of(srtt) \div 1000, 65535)
    IN IF ms = 0 THEN 1 ELSE ms

\* Mutant: the last RTT is stored instead of the smallest.
track_last_rtt(min_rtt, rtt_us) == Wide(rtt_us)
\* Lines 227-228.
track_min_rtt(min_rtt, rtt_us) ==
    IF WideLt(Wide(rtt_us), min_rtt) THEN Wide(rtt_us) ELSE min_rtt

\* Mutant: the noise branch leaves is_congestion set.
classify_both(entropy) ==
    IF entropy > HIGH_ENTROPY_THRESHOLD THEN <<1, 1>>
    ELSE IF entropy < LOW_ENTROPY_THRESHOLD THEN <<0, 1>>
    ELSE <<0, 0>>
\* Mutant: the two thresholds are exchanged.
classify_swapped(entropy) ==
    IF entropy > HIGH_ENTROPY_THRESHOLD THEN <<0, 1>>
    ELSE IF entropy < LOW_ENTROPY_THRESHOLD THEN <<1, 0>>
    ELSE <<0, 0>>
\* Lines 254-270: <<is_noise, is_congestion>> from the entropy.
classify(entropy) ==
    IF entropy > HIGH_ENTROPY_THRESHOLD THEN <<1, 0>>
    ELSE IF entropy < LOW_ENTROPY_THRESHOLD THEN <<0, 1>>
    ELSE <<0, 0>>

\* Mutant: the index is advanced without the modulo.
next_index_unwrapped(idx) == idx + 1
\* Line 237 and lines 238-239.
next_index(idx) == (idx + 1) % ENTROPY_WINDOW_SIZE
next_count(cnt) == IF cnt < ENTROPY_WINDOW_SIZE THEN cnt + 1 ELSE cnt

\* Lines 281-326: <<tp->snd_cwnd, tp->snd_cwnd_cnt>> after the growth step.
grow_window(in_ss, has, noise, cong, acked, cwnd_limited) ==
    IF in_ss = 1
    THEN IF has = 1 /\ cong = 1
         THEN <<tcp_slow_start(snd_cwnd, snd_ssthresh, acked \div 2)[1],
                snd_cwnd_cnt>>
         ELSE <<tcp_slow_start(snd_cwnd, snd_ssthresh, acked)[1], snd_cwnd_cnt>>
    ELSE IF has = 1 /\ cong = 1
         THEN tcp_cong_avoid_ai(snd_cwnd, snd_cwnd_cnt, snd_cwnd,
                  Max(1, (acked * CONGESTION_CONSERVE) \div (snd_cwnd * 1000)))
         ELSE IF has = 1 /\ noise = 1
         THEN tcp_cong_avoid_ai(snd_cwnd, snd_cwnd_cnt, snd_cwnd,
                  Max(1, (acked * NOISE_AGGRESSION) \div (snd_cwnd * 1000)))
         ELSE tcp_reno_cong_avoid(snd_cwnd, snd_cwnd_cnt, snd_ssthresh, acked,
                                  cwnd_limited)

\* The most recent ENTROPY_WINDOW_SIZE samples written at line 236, oldest
\* first (history variable).
record_sample(log, ms) ==
    LET l == Append(log, ms)
    IN IF Len(l) > ENTROPY_WINDOW_SIZE THEN Tail(l) ELSE l

\* The segments acknowledged since the last recomputation (or since init),
\* counted without the counter's width and held at the calculation interval
\* once they reach it (history variable).
pending_after(pending, acked) == Min(pending + acked, ENTROPY_CALC_INTERVAL)

\* Mutant: the early return is dropped.
no_segments_never(acked) == FALSE
\* Lines 215-216.
no_segments(acked) == acked = 0

\* Mutant: the window at the threshold still counts as slow start.
slow_start_flag_inclusive(cwnd, thresh) == IF cwnd <= thresh THEN 1 ELSE 0
\* Lines 277 and 377.
slow_start_flag(cwnd, thresh) == IF cwnd < thresh THEN 1 ELSE 0

\* Line 219: the u16 counter after the addition, and line 242.
count_acked(counter, acked) == (counter + acked) % U16_MOD
interval_reached(counter) == counter >= ENTROPY_CALC_INTERVAL

ente_tcp_cong_avoid(acked, cwnd_limited) ==
    IF no_segments(acked)
    THEN /\ UNCHANGED <<ca_vars, tp_vars, recorded, rtt_changes,
                        segments_pending>>
    ELSE LET pa == count_acked(packets_acked, acked)
             rtt_ms == rtt_ms_of(srtt_us)
             hist == [rtt_history EXCEPT ![history_index] = rtt_ms]
             cnt == next_count(history_count)
             recalc == interval_reached(pa)
         \* Lines 244 and 247: the score and the statistics, each computed once
         \* per recomputation.
         IN \E entropy \in {IF recalc THEN calculate_entropy(hist, cnt) % U16_MOD
                              ELSE shannon_entropy},
               stats \in {IF recalc
                          THEN update_rtt_stats(hist, cnt, avg_rtt_us, rtt_variance)
                          ELSE <<avg_rtt_us, rtt_variance>>} :
            LET flags == classify(entropy)
                has == IF recalc THEN 1 ELSE has_entropy_data
                noise == IF recalc THEN flags[1] ELSE is_noise
                cong == IF recalc THEN flags[2] ELSE is_congestion
                in_ss == slow_start_flag(snd_cwnd, ssthresh)
                win == grow_window(in_ss, has, noise, cong, acked, cwnd_limited)
            IN
            /\ packets_acked' = IF recalc THEN 0 ELSE pa
            /\ min_rtt_us' = track_min_rtt(min_rtt_us, rtt_us_of(srtt_us))
            /\ rtt_history' = hist
            /\ history_index' = next_index(history_index)
            /\ history_count' = cnt
            /\ shannon_entropy' = IF recalc THEN entropy ELSE shannon_entropy
            /\ avg_rtt_us' = IF recalc THEN stats[1] ELSE avg_rtt_us
            /\ rtt_variance' = IF recalc THEN stats[2] ELSE rtt_variance
            /\ has_entropy_data' = has
            /\ is_noise' = noise
            /\ is_congestion' = cong
            /\ loss_event' = IF recalc THEN 0 ELSE loss_event
            /\ in_slow_start' = in_ss
            /\ snd_cwnd' = win[1]
            /\ snd_cwnd_cnt' = win[2]
            /\ recorded' = record_sample(recorded, rtt_ms)
            /\ segments_pending' =
                   IF recalc THEN 0 ELSE pending_after(segments_pending, acked)
            /\ UNCHANGED <<prior_cwnd, ssthresh, snd_ssthresh, snd_cwnd_clamp,
                           srtt_us, rtt_changes>>

\* -------------------------------------------------------- ente_tcp_ssthresh
\* Mutant: the noise branch is ignored.
reduction_factor_halving(has, noise, cong) == CONGESTION_REDUCTION_FACTOR
\* Lines 340-360.
reduction_factor(has, noise, cong) ==
    IF has = 1
    THEN IF noise = 1 THEN NOISE_REDUCTION_FACTOR
         ELSE IF cong = 1 THEN CONGESTION_REDUCTION_FACTOR
         ELSE CONGESTION_REDUCTION_FACTOR
    ELSE CONGESTION_REDUCTION_FACTOR

\* Mutant: the window is multiplied by the factor.
new_ssthresh_multiplied(cwnd, factor) == Max(cwnd * factor, 2)
\* Line 363.
new_ssthresh(cwnd, factor) == Max(cwnd \div factor, 2)

ente_tcp_ssthresh ==
    LET thresh == new_ssthresh(snd_cwnd,
                      reduction_factor(has_entropy_data, is_noise, is_congestion))
    IN /\ loss_event' = 1
       /\ ssthresh' = thresh
       /\ prior_cwnd' = snd_cwnd
       /\ UNCHANGED <<min_rtt_us, rtt_history, history_index, history_count,
                      shannon_entropy, packets_acked, rtt_variance, avg_rtt_us,
                      has_entropy_data, in_slow_start, is_noise, is_congestion,
                      tp_vars, recorded, rtt_changes,
                      segments_pending>>

\* ------------------------------------------------------- ente_tcp_undo_cwnd
\* Mutant: the snapshot is restored unconditionally.
undo_window_prior(cwnd, prior) == prior
\* Line 376.
undo_window(cwnd, prior) == Max(cwnd, prior)

ente_tcp_undo_cwnd ==
    LET w == undo_window(snd_cwnd, prior_cwnd)
    IN /\ snd_cwnd' = w
       /\ in_slow_start' = slow_start_flag(w, ssthresh)
       /\ UNCHANGED <<min_rtt_us, prior_cwnd, ssthresh, rtt_history,
                      history_index, history_count, shannon_entropy,
                      packets_acked, rtt_variance, avg_rtt_us, has_entropy_data,
                      is_noise, is_congestion, loss_event,
                      snd_cwnd_cnt, snd_ssthresh, snd_cwnd_clamp, srtt_us,
                      recorded, rtt_changes, segments_pending>>

\* ------------------------------------------------------ ente_tcp_cwnd_event
\* Mutant: every event marks a loss.
event_loss_always(ev, loss) == 1
\* Lines 388-391, and lines 393-397.
event_loss(ev, loss) == IF ev = CA_EVENT_LOSS THEN 1 ELSE loss
event_restart(ev, old) == IF ev = CA_EVENT_CWND_RESTART THEN 0 ELSE old

ente_tcp_cwnd_event(ev) ==
    /\ loss_event' = event_loss(ev, loss_event)
    /\ history_count' = event_restart(ev, history_count)
    /\ has_entropy_data' = event_restart(ev, has_entropy_data)
    /\ UNCHANGED <<min_rtt_us, prior_cwnd, ssthresh, rtt_history, history_index,
                   shannon_entropy, packets_acked, rtt_variance, avg_rtt_us,
                   in_slow_start, is_noise, is_congestion,
                   tp_vars, recorded, rtt_changes,
                      segments_pending>>

\* ------------------------------------------------------- ente_tcp_set_state
ente_tcp_set_state(new_state) ==
    /\ loss_event' = IF new_state = TCP_CA_Loss THEN 1 ELSE loss_event
    /\ UNCHANGED <<min_rtt_us, prior_cwnd, ssthresh, rtt_history, history_index,
                   history_count, shannon_entropy, packets_acked, rtt_variance,
                   avg_rtt_us, has_entropy_data, in_slow_start, is_noise,
                   is_congestion, tp_vars, recorded, rtt_changes,
                      segments_pending>>

\* ------------------------------------------------------------------ the host
\* The host's RTT estimator moves tp->srtt_us between acknowledgments.
host_rtt_update(srtt) ==
    /\ rtt_changes < MaxRttChanges
    /\ srtt # srtt_us
    /\ srtt_us' = srtt
    /\ rtt_changes' = rtt_changes + 1
    /\ UNCHANGED <<ca_vars, snd_cwnd, snd_cwnd_cnt, snd_ssthresh,
                   snd_cwnd_clamp, recorded, segments_pending>>

\* The smoothed RTT rises as a queue builds up (SpecEntropy).
host_rtt_rise(srtt) ==
    /\ srtt > srtt_us
    /\ srtt_us' = srtt
    /\ UNCHANGED <<ca_vars, snd_cwnd, snd_cwnd_cnt, snd_ssthresh,
                   snd_cwnd_clamp, recorded, rtt_changes, segments_pending>>

\* The caller of .ssthresh stores the threshold it got (line 366 returns
\* ca->ssthresh) in tp->snd_ssthresh and cuts the window: to one segment on a
\* timeout, to the threshold on fast recovery.
host_enter_loss(to_one) ==
    /\ loss_event = 1
    /\ snd_ssthresh' = ssthresh
    /\ snd_cwnd' = IF to_one THEN 1 ELSE Min(snd_cwnd, ssthresh)
    /\ snd_cwnd_cnt' = 0
    /\ UNCHANGED <<ca_vars, snd_cwnd_clamp, srtt_us, recorded, rtt_changes,
                   segments_pending>>

\* ------------------------------------------------------------ ente_tcp_init
\* The state ente_tcp_init leaves (lines 182-205), for the tp->snd_cwnd,
\* tp->snd_ssthresh, tp->snd_cwnd_clamp and tp->srtt_us it finds.
ente_tcp_init(cwnds, ssthreshes, clamp, srtts) ==
    /\ min_rtt_us = U32_MAX
    /\ snd_cwnd \in cwnds
    /\ ssthresh \in ssthreshes
    /\ prior_cwnd = snd_cwnd
    /\ history_index = 0
    /\ history_count = 0
    /\ shannon_entropy = 0
    /\ packets_acked = 0
    /\ rtt_variance = Wide(0)
    /\ avg_rtt_us = 0
    /\ has_entropy_data = 0
    /\ in_slow_start = 1
    /\ is_noise = 0
    /\ is_congestion = 0
    /\ loss_event = 0
    /\ rtt_history = [i \in 0 .. (ENTROPY_WINDOW_SIZE - 1) |-> 0]
    /\ snd_ssthresh = TCP_INFINITE_SSTHRESH
    /\ snd_cwnd_cnt = 0
    /\ snd_cwnd_clamp = clamp
    /\ srtt_us \in srtts
    /\ recorded = <<>>
    /\ rtt_changes = 0
    /\ segments_pending = 0

\* ------------------------------------------------------------ specifications
\* Spec: the estimator side.  Every handler runs, any number of times; the
\* window is held at one segment so that the history, the entropy and the
\* flags are explored in full (ring wrap-around, restarts at every index).
Init == ente_tcp_init({1}, {2}, 1, SrttInputs)

Next ==
    \/ \E acked \in AckedInputs, cwnd_limited \in BOOLEAN :
           ente_tcp_cong_avoid(acked, cwnd_limited)
    \/ ente_tcp_ssthresh
    \/ ente_tcp_undo_cwnd
    \/ \E ev \in CaEvents : ente_tcp_cwnd_event(ev)
    \/ \E new_state \in CaStates : ente_tcp_set_state(new_state)
    \/ \E srtt \in SrttInputs : host_rtt_update(srtt)

Spec == Init /\ [][Next]_vars

\* SpecAck: the first MaxAcks acknowledgments of a connection, segment by
\* segment: samples are stored with and without a recomputation.
NextAck ==
    \/ \E acked \in SegmentAckedInputs, cwnd_limited \in BOOLEAN :
           /\ acked > 0 => Len(recorded) < MaxAcks
           /\ ente_tcp_cong_avoid(acked, cwnd_limited)
    \/ ente_tcp_ssthresh
    \/ ente_tcp_undo_cwnd
    \/ \E ev \in CaEvents : ente_tcp_cwnd_event(ev)
    \/ \E new_state \in CaStates : ente_tcp_set_state(new_state)
    \/ \E srtt \in SrttInputs : host_rtt_update(srtt)

SpecAck == Init /\ [][NextAck]_vars

\* SpecWrap: the first MaxAcks acknowledgments again, with acked counts up
\* to the width of packets_acked, and the events that set loss_event.
NextWrap ==
    \/ \E acked \in WrapAckedInputs, cwnd_limited \in BOOLEAN :
           /\ Len(recorded) < MaxAcks
           /\ ente_tcp_cong_avoid(acked, cwnd_limited)
    \/ \E ev \in CaEvents : ente_tcp_cwnd_event(ev)
    \/ \E new_state \in CaStates : ente_tcp_set_state(new_state)

SpecWrap == Init /\ [][NextWrap]_vars

\* SpecEntropy: the estimator as a function of its window.  The RTT only
\* rises, through four values, for any number of acknowledgments: the
\* histograms of every window of 1 to 16 samples over these values occur,
\* before and after the ring wraps.
InitEntropy == ente_tcp_init({1}, {2}, 1, {8000})

NextEntropy ==
    \/ \E acked \in AckedInputs, cwnd_limited \in BOOLEAN :
           ente_tcp_cong_avoid(acked, cwnd_limited)
    \/ \E srtt \in EntropySrttInputs : host_rtt_rise(srtt)

SpecEntropy == InitEntropy /\ [][NextEntropy]_vars

\* SpecProgress: a connection that starts in slow start under a finite
\* threshold and sees acknowledgments only, at a steady RTT: no loss, undo
\* or restart.  The host keeps delivering acknowledgments while data is in
\* flight, so the acknowledgment step is weakly fair.
InitProgress ==
    ente_tcp_init({1}, {ProgressSsthresh}, ProgressCwndClamp, {0})

NextProgress ==
    \E acked \in ProgressAckedInputs, cwnd_limited \in BOOLEAN :
        ente_tcp_cong_avoid(acked, cwnd_limited)

SpecProgress ==
    InitProgress /\ [][NextProgress]_vars /\ WF_vars(NextProgress)

\* SpecWin: the window side.  The window moves between 1 and MaxCwnd, the
\* host cuts it after a loss, and a run handles at most WinAcks
\* acknowledgments, enough for every classification to be reached.
InitWin ==
    ente_tcp_init(InitCwndInputs, InitSsthreshInputs, MaxCwnd, {0})

NextWin ==
    \/ \E acked \in AckedInputs, cwnd_limited \in BOOLEAN :
           /\ acked > 0 => Len(recorded) < WinAcks
           /\ ente_tcp_cong_avoid(acked, cwnd_limited)
    \/ ente_tcp_ssthresh
    \/ ente_tcp_undo_cwnd
    \/ \E ev \in CaEvents : ente_tcp_cwnd_event(ev)
    \/ \E new_state \in CaStates : ente_tcp_set_state(new_state)
    \/ \E srtt \in SrttInputs : host_rtt_update(srtt)
    \/ \E to_one \in BOOLEAN : host_enter_loss(to_one)

SpecWin == InitWin /\ [][NextWin]_vars

\* ----------------------------------------------------------- derived values
\* The classification the handlers act on (lines 284-325 and 340-360):
\* has_entropy_data first, then is_noise, then is_congestion.
classification ==
    IF has_entropy_data = 0 THEN "NoData"
    ELSE IF is_noise = 1 THEN "Noise"
    ELSE IF is_congestion = 1 THEN "Congestion"
    ELSE "Neutral"

\* What ente_tcp_ssthresh returns (line 366) and what ente_tcp_undo_cwnd
\* returns (line 379), read in the state the handler leaves.
ssthresh_return == ssthresh
undo_return == Max(snd_cwnd, prior_cwnd)

\* The history_count samples stored since init or since the last restart,
\* oldest first.
StoredSamples ==
    SubSeq(recorded, Len(recorded) - history_count + 1, Len(recorded))
AllIdentical(seq) == \A i, j \in 1 .. Len(seq) : seq[i] = seq[j]

\* ------------------------------------------------------------------- claims

\* C1: under Noise, ssthresh returns two thirds of the window (floored at
\* 2), never less than the halved window returned under the other
\* classifications.
C1_NoiseKeepsTwoThirds ==
    [][(ente_tcp_ssthresh /\ classification = "Noise")
         => /\ ssthresh_return' = Max((2 * snd_cwnd) \div 3, 2)
            /\ ssthresh_return' >= Max(snd_cwnd \div 2, 2)]_vars

C3_UndoNeverShrinks ==
    [][ente_tcp_undo_cwnd
         => /\ snd_cwnd' = Max(snd_cwnd, prior_cwnd)
            /\ undo_return' >= snd_cwnd
            /\ snd_cwnd' >= snd_cwnd]_vars
\* No acknowledgment has been handled, the host has cut the window after a
\* loss (tp->snd_ssthresh holds the threshold 2), and the window is back at
\* the snapshot 3: undo_cwnd restored it.
C3_Witness ==
    /\ recorded = <<>>
    /\ snd_ssthresh = 2
    /\ ssthresh = 2
    /\ prior_cwnd = 3
    /\ snd_cwnd = 3

\* C4 as claimed: whenever the history holds fewer than 8 samples,
\* entropy_score is 0.
C4_FewSamplesZero == history_count < 8 => shannon_entropy = 0
\* C4 amended: with fewer than 8 samples entropy_score is 0 unless an idle
\* restart has discarded samples since the last recomputation (the restart
\* zeroes history_count and keeps the last computed score).
C4_FewSamplesZeroUnlessRestarted ==
    (history_count < 8 /\ (has_entropy_data = 1 \/ Len(recorded) = history_count))
        => shannon_entropy = 0
\* A recomputation ran over fewer than 8 samples that are not all equal, and
\* stored 0.
C4_Witness ==
    /\ has_entropy_data = 1
    /\ history_count \in 2 .. 7
    /\ \E i, j \in 0 .. (history_count - 1) : rtt_history[i] # rtt_history[j]
    /\ shannon_entropy = 0

\* C5: after a recomputation over stored samples that are all identical,
\* entropy_score is 0, for any count and after any events, restarts
\* included.
C5_IdenticalSamplesZero ==
    (has_entropy_data = 1 /\ packets_acked = 0 /\ AllIdentical(StoredSamples))
        => shannon_entropy = 0

\* C6: a restart event sets history_count to 0 and the classification to
\* NoData and leaves min_rtt unchanged; a loss event only sets loss_event;
\* any other event changes no field.
C6_CwndEventEffects ==
    [][\A ev \in CaEvents :
          ente_tcp_cwnd_event(ev)
            => /\ ev = CA_EVENT_CWND_RESTART
                    => /\ history_count' = 0
                       /\ classification' = "NoData"
                       /\ min_rtt_us' = min_rtt_us
               /\ ev = CA_EVENT_LOSS
                    => /\ loss_event' = 1
                       /\ UNCHANGED <<min_rtt_us, prior_cwnd, ssthresh,
                                      rtt_history, history_index, history_count,
                                      shannon_entropy, packets_acked,
                                      rtt_variance, avg_rtt_us, has_entropy_data,
                                      in_slow_start, is_noise, is_congestion,
                                      tp_vars>>
               /\ ev \notin {CA_EVENT_CWND_RESTART, CA_EVENT_LOSS}
                    => UNCHANGED <<ca_vars, tp_vars>>]_vars
\* Samples had been stored and classified as Noise when a restart came: the
\* count is 0, the classification NoData, and min_rtt keeps its value.
C6_Witness ==
    /\ history_count = 0
    /\ has_entropy_data = 0
    /\ is_noise = 1
    /\ Len(recorded) >= 8
    /\ min_rtt_us = Wide(1)

\* C7: min_rtt never increases: an acknowledgment with acked > 0 (the only
\* step that advances history_index) sets it to min(min_rtt, max(rtt, 1)),
\* every other step leaves it alone.
C7_MinRttNonIncreasing ==
    [][/\ WideLe(min_rtt_us', min_rtt_us)
       /\ IF history_index' # history_index
          THEN LET rtt == Wide(Max(srtt_us \div 8, 1))
               IN min_rtt_us' = IF WideLt(rtt, min_rtt_us) THEN rtt
                                ELSE min_rtt_us
          ELSE min_rtt_us' = min_rtt_us]_vars
\* The RTT rose after the minimum was taken and a restart came in between:
\* min_rtt is still the smaller, older value.
C7_Witness ==
    /\ min_rtt_us = Wide(1)
    /\ Len(recorded) >= 2
    /\ recorded[Len(recorded)] = 65535
    /\ history_count < Len(recorded)

\* C8: entropy_score is always in [0, 1000].
C8_EntropyInRange == shannon_entropy \in 0 .. 1000
\* A recomputation over at least 8 samples whose accumulated sum exceeds
\* 4000 stored the clamped 1000.
C8_Witness ==
    /\ has_entropy_data = 1
    /\ packets_acked = 0
    /\ history_count >= 8
    /\ LET min_val == entropy_min(rtt_history, history_count)
           range == entropy_max(rtt_history, history_count) - min_val
       IN /\ range > 0
          /\ entropy_accumulate(rtt_history, history_count, min_val, range)
                 > 4000
    /\ shannon_entropy = 1000

\* C9: history_count <= 16 and history_index in [0, 16); once the buffer is
\* full it holds exactly the 16 most recently recorded samples, the oldest
\* at history_index.
C9_RingHoldsLastSixteen ==
    /\ history_count <= ENTROPY_WINDOW_SIZE
    /\ history_index \in 0 .. (ENTROPY_WINDOW_SIZE - 1)
    /\ history_count = ENTROPY_WINDOW_SIZE
         => /\ Len(recorded) = ENTROPY_WINDOW_SIZE
            /\ \A k \in 1 .. ENTROPY_WINDOW_SIZE :
                 rtt_history[(history_index + k - 1) % ENTROPY_WINDOW_SIZE]
                     = recorded[k]
\* The buffer is full, the seventeenth write has replaced slot 0, and slot 1
\* holds the oldest sample, which differs from the newest.
C9_Witness ==
    /\ history_count = ENTROPY_WINDOW_SIZE
    /\ history_index = 1
    /\ rtt_history[0] # rtt_history[1]
    /\ recorded[1] = rtt_history[1]
    /\ recorded[ENTROPY_WINDOW_SIZE] = rtt_history[0]

\* C10: the classification is exactly one of NoData, Noise, Congestion,
\* Neutral: is_noise and is_congestion are never both set.
C10_OneClassification ==
    /\ ~(is_noise = 1 /\ is_congestion = 1)
    /\ has_entropy_data \in {0, 1}
    /\ is_noise \in {0, 1}
    /\ is_congestion \in {0, 1}
\* The flags have moved from Congestion to Noise: a recomputation over 8
\* samples that differ set is_noise and cleared is_congestion.
C10_Witness ==
    /\ has_entropy_data = 1
    /\ is_noise = 1
    /\ is_congestion = 0
    /\ shannon_entropy > HIGH_ENTROPY_THRESHOLD

\* C11: cong_avoid called with acked = 0 changes no field of the connection
\* state and does not change the window.
C11_ZeroAckedNoOp ==
    [][(\E cwnd_limited \in BOOLEAN : ente_tcp_cong_avoid(0, cwnd_limited))
         => UNCHANGED <<ca_vars, tp_vars>>]_vars
\* Seven segments are pending and seven samples are stored, the RTT has
\* moved since the last sample: cong_avoid(0) is called in this state and
\* returns to it, where any further step of the handler would have stored a
\* new sample.
C11_Witness ==
    /\ packets_acked = 7
    /\ history_count = 7
    /\ history_index = 7
    /\ rtt_ms_of(srtt_us) # recorded[Len(recorded)]
    /\ \E cwnd_limited \in BOOLEAN : ENABLED ente_tcp_cong_avoid(0, cwnd_limited)

\* The samples stored since init or since the last restart, laid out as a
\* history buffer that holds nothing else, oldest first from slot 0.
RecentWindow ==
    [i \in 0 .. (ENTROPY_WINDOW_SIZE - 1) |->
        IF i < history_count THEN StoredSamples[i + 1] ELSE 0]

\* C12: every recomputation uses exactly the most recent
\* min(history_count, 16) recorded samples: the entropy_score, avg_rtt and
\* rtt_variance it leaves are those of the samples recorded since the last
\* restart, never of samples recorded before it.
C12_RecomputeUsesRecentSamples ==
    (has_entropy_data = 1 /\ packets_acked = 0 /\ segments_pending = 0)
        => /\ shannon_entropy = calculate_entropy(RecentWindow, history_count)
           /\ history_count >= 4
                => <<avg_rtt_us, rtt_variance>> =
                       update_rtt_stats(RecentWindow, history_count,
                                        avg_rtt_us, rtt_variance)

\* C13: from init, and again from every restart, the classification stays
\* NoData until a recomputation has run over at least 8 samples: while the
\* history holds fewer than 8 samples the classification is NoData.
C13_NoDataUntilEightSamples ==
    history_count < 8 => classification = "NoData"

\* C14: in CongestionAvoidance, for the same window, window counter and
\* acked count, the window one acknowledgment leaves under Noise is at least
\* the one the standard additive increase (Neutral, NoData) leaves, which is
\* at least the one left under Congestion.  The standard step is taken with
\* the sender limited by the window and the host past its own threshold.
C14_GrowthOrderedByClass ==
    (snd_cwnd >= ssthresh /\ snd_cwnd >= snd_ssthresh)
        => \A acked \in AckedInputs \ {0} :
               LET noise == grow_window(0, 1, 1, 0, acked, TRUE)[1]
                   neutral == grow_window(0, 1, 0, 0, acked, TRUE)[1]
                   nodata == grow_window(0, 0, 0, 0, acked, TRUE)[1]
                   congestion == grow_window(0, 1, 0, 1, acked, TRUE)[1]
               IN /\ noise >= neutral
                  /\ neutral = nodata
                  /\ nodata >= congestion

\* How the next acknowledgment will be handled: the test of line 277 on the
\* current window and threshold.
CongestionAvoidance == snd_cwnd >= ssthresh

C16_FlagDerived == (in_slow_start = 1) <=> (snd_cwnd < ssthresh)
\* C16 amended: in_slow_start is a stored flag.  An acknowledgment with
\* acked > 0 sets it from the window and threshold it finds, before it grows
\* the window; undo_cwnd sets it from the window it restores; every other
\* step leaves it as it was.
C16_FlagSetByAckAndUndo ==
    [][/\ history_index' # history_index
            => in_slow_start' = (IF snd_cwnd < ssthresh THEN 1 ELSE 0)
       /\ ente_tcp_undo_cwnd
            => in_slow_start' = (IF snd_cwnd' < ssthresh' THEN 1 ELSE 0)
       /\ (history_index' = history_index /\ ~ente_tcp_undo_cwnd)
            => in_slow_start' = in_slow_start]_vars
\* An acknowledgment found the window below the initial threshold 2, set the
\* flag, and grew the window to the threshold or beyond: the flag is still
\* set.
C16_Witness ==
    /\ in_slow_start = 1
    /\ Len(recorded) >= 1
    /\ loss_event = 0
    /\ ssthresh = 2
    /\ snd_cwnd >= ssthresh

\* C17: an acknowledgment recomputes (counter back to 0, have-data flag set,
\* loss_event cleared) if and only if the segments acknowledged since the
\* previous recomputation, this acknowledgment's included, are at least 8,
\* for any 32-bit acked count.
C17_RecomputeEveryEightSegments ==
    [][\A acked \in WrapAckedInputs :
          (\E cwnd_limited \in BOOLEAN : ente_tcp_cong_avoid(acked, cwnd_limited))
            => ((segments_pending + acked >= ENTROPY_CALC_INTERVAL)
                  <=> (/\ packets_acked' = 0
                       /\ segments_pending' = 0
                       /\ has_entropy_data' = 1
                       /\ loss_event' = 0))]_vars

\* C18: whenever the classification is not NoData it agrees with the stored
\* entropy_score: Noise iff the score is above 700, Congestion iff it is
\* below 400, Neutral iff it is from 400 to 700.
C18_ClassAgreesWithScore ==
    classification # "NoData"
        => /\ classification = "Noise" <=> shannon_entropy > 700
           /\ classification = "Congestion" <=> shannon_entropy < 400
           /\ classification = "Neutral"
                <=> (400 <= shannon_entropy /\ shannon_entropy <= 700)
\* A recomputation over 8 equal samples stored the score 0 and the
\* classification Congestion.
C18_Witness ==
    /\ classification = "Congestion"
    /\ history_count >= 8
    /\ packets_acked = 0
    /\ AllIdentical(StoredSamples)
    /\ shannon_entropy = 0

C20_SlowStartGrows ==
    [][(snd_cwnd < ssthresh /\ history_index' # history_index)
         => snd_cwnd' > snd_cwnd]_vars
====
